---- MODULE Spec2Model ----
(***************************************************************************)
(* Model of "SAP Logistics/Logistics-System.py": one invocation of         *)
(* lambda_handler on an inbound action-invocation event, with the DynamoDB *)
(* table as a nondeterministic collaborator.                               *)
(*                                                                         *)
(* Python values are tagged records [t |-> type, v |-> payload].  Text is  *)
(* a sequence of atoms (short strings); the special characters that        *)
(* json.dumps escapes are atoms of their own.                              *)
(***************************************************************************)
EXTENDS Integers, Sequences, FiniteSets, TLC

VARIABLES
    event,        \* the event passed to lambda_handler
    pc,           \* position of the invocation in the pipeline
    sales_id,     \* local of lambda_handler (line 104)
    body,         \* local of lambda_handler (line 115)
    exc,          \* the exception in flight, PyNone when there is none
    result,       \* what lambda_handler returned, PyNone before it returns
    openCalls,    \* number of table_status calls made (line 22)
    queryCalls,   \* number of orders_table.query calls made (line 46)
    dbResponse,   \* what orders_table.query returned, PyNone if nothing
    fault         \* where the first exception of the invocation was raised,
                  \* and which: [at |-> step, e |-> exception], or PyNone

vars == <<event, pc, sales_id, body, exc, result, openCalls, queryCalls,
          dbResponse, fault>>

----------------------------------------------------------------------------
\* Bounds of the model
MaxParams == 2
MaxItems == 2

----------------------------------------------------------------------------
\* Python values

PyNone == [t |-> "NoneType", v |-> <<>>]
PyStr(text) == [t |-> "str", v |-> text]
PyInt(n) == [t |-> "int", v |-> n]
PyDecimal(n) == [t |-> "Decimal", v |-> n]
PyList(seq) == [t |-> "list", v |-> seq]
\* a dict is its sequence of <<key text, value>> pairs, in insertion order
PyDict(pairs) == [t |-> "dict", v |-> pairs]

\* bool(x), as used by "not x"
Truthy(x) ==
    CASE x.t = "NoneType" -> FALSE
      [] x.t = "str" -> x.v # <<>>
      [] x.t = "int" -> x.v # 0
      [] x.t = "list" -> x.v # <<>>
      [] x.t = "dict" -> x.v # <<>>
      [] OTHER -> TRUE

\* str(x) inside an f-string, for the values the handler interpolates
StrOf(x) ==
    CASE x.t = "str" -> x.v
      [] x.t = "int" -> <<ToString(x.v)>>
      [] x.t = "NoneType" -> <<"None">>
      [] x.t = "exception" -> x.v
      [] OTHER -> <<"<object>">>

\* mapping.get(key): the value, or None when the key is absent
Get(mapping, key) == IF key \in DOMAIN mapping THEN mapping[key] ELSE PyNone

\* key in d, for a PyDict
HasKey(d, key) == \E i \in 1..Len(d.v) : d.v[i][1] = key

\* d[key] for a PyDict that has the key (last binding wins)
Lookup(d, key) ==
    LET I == {i \in 1..Len(d.v) : d.v[i][1] = key}
    IN  d.v[CHOOSE i \in I : \A j \in I : j <= i][2]

----------------------------------------------------------------------------
\* json.dumps

Quote == "\""
Backslash == "\\"

\* the escape of one atom of a string
EscapeAtom(a) ==
    IF a = Quote THEN <<Backslash, Quote>>
    ELSE IF a = Backslash THEN <<Backslash, Backslash>>
    ELSE <<a>>

RECURSIVE EscapeText(_)
EscapeText(text) ==
    IF text = <<>> THEN <<>>
    ELSE EscapeAtom(Head(text)) \o EscapeText(Tail(text))

DumpsStr(text) == <<Quote>> \o EscapeText(text) \o <<Quote>>

\* whether json.dumps accepts the value (it raises TypeError on a Decimal)
RECURSIVE Serializable(_)
Serializable(x) ==
    CASE x.t \in {"NoneType", "str", "int"} -> TRUE
      [] x.t = "list" -> \A i \in 1..Len(x.v) : Serializable(x.v[i])
      [] x.t = "dict" -> \A i \in 1..Len(x.v) : Serializable(x.v[i][2])
      [] OTHER -> FALSE

RECURSIVE Dumps(_)
RECURSIVE DumpsSeq(_)
RECURSIVE DumpsPairs(_)
\* the elements of a list, joined by ", "
DumpsSeq(seq) ==
    IF seq = <<>> THEN <<>>
    ELSE Dumps(Head(seq))
         \o (IF Tail(seq) = <<>> THEN <<>> ELSE <<", ">> \o DumpsSeq(Tail(seq)))

\* the items of a dict, each key: value, joined by ", "
DumpsPairs(pairs) ==
    IF pairs = <<>> THEN <<>>
    ELSE DumpsStr(Head(pairs)[1]) \o <<": ">> \o Dumps(Head(pairs)[2])
         \o (IF Tail(pairs) = <<>> THEN <<>> ELSE <<", ">> \o DumpsPairs(Tail(pairs)))

\* json.dumps(x) for a serializable x, with the default separators
Dumps(x) ==
    CASE x.t = "NoneType" -> <<"null">>
      [] x.t = "str" -> DumpsStr(x.v)
      [] x.t = "int" -> <<ToString(x.v)>>
      [] x.t = "list" -> <<"[">> \o DumpsSeq(x.v) \o <<"]">>
      [] x.t = "dict" -> <<"{">> \o DumpsPairs(x.v) \o <<"}">>

----------------------------------------------------------------------------
\* Exceptions

\* an exception object: its class and str(e)
Exc(cls, text) == [t |-> "exception", cls |-> cls, v |-> text]

\* a botocore ClientError: e.response['Error'] has Code and Message
ClientError(code, message) ==
    [t |-> "exception", cls |-> "ClientError",
     v |-> <<"An error occurred (", code, "): ">> \o message,
     code |-> code, message |-> message]

\* class LogisticsQueryError(Exception)
LogisticsQueryError(text) == Exc("LogisticsQueryError", text)

ValueError(text) == Exc("ValueError", text)

\* isinstance(e, cls): every class of the model derives directly from Exception
IsInstance(e, cls) == cls = "Exception" \/ e.cls = cls

----------------------------------------------------------------------------
\* The inputs: events of the InboundEvent shape, any field of which may be
\* absent, and the behaviours of the table

SupportedPath == <<"/salesorder/{SalesOrderID}">>

ApiPaths ==
    {SupportedPath, <<"/salesorder/{salesorderid}">>, <<"/salesorder/", "SO123">>,
     <<"/order/", Quote, "x", Quote>>}

ParamNames == {PyStr(<<"SalesOrderID">>), PyStr(<<"salesorderid">>)}
ParamValues == {PyStr(<<>>), PyStr(<<"SO123">>), PyInt(123)}

\* f restricted to the keys in S
Restrict(f, S) == [k \in S |-> f[k]]

Parameters ==
    {Restrict([name |-> n, value |-> v], S) :
        n \in ParamNames, v \in ParamValues, S \in (SUBSET {"name", "value"}) \ {{}}}

ParameterLists == UNION {[1..n -> Parameters] : n \in 0..MaxParams}

Events ==
    {Restrict([apiPath |-> PyStr(p), actionGroup |-> PyStr(<<"ag1">>),
               httpMethod |-> PyStr(<<"GET">>), parameters |-> PyList(ps)], S) :
        p \in ApiPaths, ps \in ParameterLists,
        S \in SUBSET {"apiPath", "actionGroup", "httpMethod", "parameters"}}

\* error texts of the storage layer
RawMessages ==
    {<<"Requested resource not found">>,
     <<"Rate exceeded for table ", Quote, "logistics", Quote>>}

\* what table_status (line 22) can raise
OpenFaults ==
    {ClientError("ResourceNotFoundException", m) : m \in RawMessages}
    \cup {Exc("EndpointConnectionError", <<"Could not connect to the endpoint URL">>)}

\* what orders_table.query (line 46) can raise
QueryFaults ==
    {ClientError("ProvisionedThroughputExceededException", m) : m \in RawMessages}
    \cup {Exc("EndpointConnectionError", <<"Could not connect to the endpoint URL">>),
          Exc("ValueError", <<"Invalid endpoint: dynamodb">>)}

\* stored logistics records; boto3 hands numbers back as Decimal
LogisticsRecords ==
    {PyDict(<< <<(<<"order_id">>), PyStr(<<"SO123">>)>>,
               <<(<<"status">>), PyStr(<<"shipped">>)>> >>),
     PyDict(<< <<(<<"order_id">>), PyStr(<<"SO123">>)>>,
               <<(<<"quantity">>), PyDecimal(2)>> >>)}

ItemLists == UNION {[1..n -> LogisticsRecords] : n \in 0..MaxItems}

\* what orders_table.query can return
QueryResponses ==
    {PyDict(<< <<(<<"Items">>), PyList(items)>>,
               <<(<<"Count">>), PyInt(Len(items))>> >>) : items \in ItemLists}
    \cup {PyDict(<< <<(<<"Count">>), PyInt(0)>> >>)}

----------------------------------------------------------------------------
\* The functions of the program

\* setup_dynamodb_table's except clauses: what it raises when table_status
\* raised e
setup_dynamodb_table_except(e) ==
    IF IsInstance(e, "ClientError")
    THEN LogisticsQueryError(<<"Database initialization error: ">> \o e.message)
    ELSE LogisticsQueryError(<<"Failed to initialize database connection">>)

\* the input validation that opens query_logistic_db: the exception it
\* raises, or PyNone
check_sales_id(id) ==
    IF ~Truthy(id) \/ id.t # "str"
    THEN ValueError(<<"Invalid sales ID provided">>)
    ELSE PyNone

\* check_response, were an empty Items list treated as a failure
check_response_nonempty(response) ==
    IF ~HasKey(response, <<"Items">>) \/ ~Truthy(Lookup(response, <<"Items">>))
    THEN LogisticsQueryError(<<"Invalid response format from database">>)
    ELSE PyNone

\* the validation of the table's response: the exception raised, or PyNone
check_response(response) ==
    IF ~HasKey(response, <<"Items">>)
    THEN LogisticsQueryError(<<"Invalid response format from database">>)
    ELSE PyNone

\* query_return, were the Items list unwrapped
query_return_items(response) == Lookup(response, <<"Items">>)

\* what query_logistic_db returns for the table's response
query_return(response) == response

\* query_logistic_db's except clauses: what it raises when its body raised e
query_logistic_db_except(e) ==
    IF IsInstance(e, "ClientError")
    THEN LogisticsQueryError(<<"Database query error: ">> \o e.message)
    ELSE IF IsInstance(e, "ValueError")
    THEN e
    ELSE LogisticsQueryError(<<"Failed to query logistics data: ">> \o StrOf(e))

required_fields == <<"apiPath", "actionGroup", "httpMethod">>

\* validate_event, were the last missing field reported
validate_event_last(ev) ==
    LET missing == {i \in 1..Len(required_fields) : required_fields[i] \notin DOMAIN ev}
        last == CHOOSE i \in missing : \A j \in missing : j <= i
    IN  IF missing = {} THEN PyNone
        ELSE ValueError(<<"Missing required field: ", required_fields[last]>>)

\* validate_event: the exception it raises, or PyNone
validate_event(ev) ==
    LET missing == {i \in 1..Len(required_fields) : required_fields[i] \notin DOMAIN ev}
        first == CHOOSE i \in missing : \A j \in missing : i <= j
    IN  IF missing = {} THEN PyNone
        ELSE ValueError(<<"Missing required field: ", required_fields[first]>>)

\* create_error_response, were the event's fields echoed when present
create_error_response_echo(error_message, status_code) ==
    LET echo(key) == IF key \in DOMAIN event THEN event[key] ELSE PyStr(<<"unknown">>)
    IN  [messageVersion |-> "1.0",
         response |->
            [actionGroup |-> echo("actionGroup"),
             apiPath |-> echo("apiPath"),
             httpMethod |-> echo("httpMethod"),
             httpStatusCode |-> status_code,
             responseBody |->
                ("application/json" :>
                    [body |-> Dumps(PyDict(<< <<(<<"error">>), PyStr(error_message)>> >>))])]]

create_error_response(error_message, status_code) ==
    [messageVersion |-> "1.0",
     response |->
        [actionGroup |-> PyStr(<<"unknown">>),
         apiPath |-> PyStr(<<"unknown">>),
         httpMethod |-> PyStr(<<"unknown">>),
         httpStatusCode |-> status_code,
         responseBody |->
            ("application/json" :>
                [body |-> Dumps(PyDict(<< <<(<<"error">>), PyStr(error_message)>> >>))])]]

\* route, were the path matched on its /salesorder/ prefix, in any case
route_prefix(ev) ==
    \/ ev["apiPath"] = PyStr(SupportedPath)
    \/ ev["apiPath"] = PyStr(<<"/salesorder/{salesorderid}">>)
    \/ Head(ev["apiPath"].v) = "/salesorder/"

\* the path dispatch of lambda_handler
route(ev) == ev["apiPath"] = PyStr(SupportedPath)

\* find_sales_id, were the loop without its break: the last match wins
find_sales_id_last(parameters) ==
    LET named == {i \in 1..Len(parameters) :
                     Get(parameters[i], "name") = PyStr(<<"SalesOrderID">>)}
    IN  IF named = {} THEN PyNone
        ELSE Get(parameters[CHOOSE i \in named : \A j \in named : j <= i], "value")

\* the parameter loop of lambda_handler: the value of the first parameter
\* named SalesOrderID, None when there is none
RECURSIVE find_sales_id(_)
find_sales_id(parameters) ==
    IF parameters = <<>> THEN PyNone
    ELSE IF Get(Head(parameters), "name") = PyStr(<<"SalesOrderID">>)
    THEN Get(Head(parameters), "value")
    ELSE find_sales_id(Tail(parameters))

\* the success envelope of lambda_handler
success_response(ev, b) ==
    [messageVersion |-> "1.0",
     response |->
        [actionGroup |-> ev["actionGroup"],
         apiPath |-> ev["apiPath"],
         httpMethod |-> ev["httpMethod"],
         httpStatusCode |-> 200,
         responseBody |-> ("application/json" :> [body |-> Dumps(b)])]]

\* lambda_handler_except, were the final "except Exception" clause missing
lambda_handler_except_no_catch_all(e) ==
    IF IsInstance(e, "ValueError")
    THEN create_error_response(StrOf(e), 400)
    ELSE IF IsInstance(e, "LogisticsQueryError")
    THEN create_error_response(StrOf(e), 500)
    ELSE PyNone

\* lambda_handler's except clauses: what it returns when its body raised e;
\* PyNone when no clause matches and e propagates to the caller
lambda_handler_except(e) ==
    IF IsInstance(e, "ValueError")
    THEN create_error_response(StrOf(e), 400)
    ELSE IF IsInstance(e, "LogisticsQueryError")
    THEN create_error_response(StrOf(e), 500)
    ELSE IF IsInstance(e, "Exception")
    THEN create_error_response(<<"Internal server error">>, 500)
    ELSE PyNone

----------------------------------------------------------------------------
\* The invocation, step by step

Init ==
    /\ event \in Events
    /\ pc = "Start"
    /\ sales_id = PyNone
    /\ body = PyNone
    /\ exc = PyNone
    /\ result = PyNone
    /\ openCalls = 0
    /\ queryCalls = 0
    /\ dbResponse = PyNone
    /\ fault = PyNone

\* raise e at step `at`, control passing to the except clauses at `handler`
Raise(at, e, handler) ==
    /\ exc' = e
    /\ fault' = IF fault = PyNone THEN [t |-> "fault", at |-> at, e |-> e] ELSE fault
    /\ pc' = handler

\* Start -> Validated: validate_event(event)
ValidateEvent ==
    /\ pc = "Start"
    /\ LET e == validate_event(event)
       IN  IF e = PyNone
           THEN pc' = "Validated" /\ UNCHANGED <<exc, fault>>
           ELSE Raise("validate", e, "Raised")
    /\ UNCHANGED <<event, sales_id, body, result, openCalls, queryCalls, dbResponse>>

\* Validated -> Routed: the comparison of event["apiPath"] and its else branch
Route ==
    /\ pc = "Validated"
    /\ IF route(event)
       THEN pc' = "Routed" /\ UNCHANGED <<exc, fault>>
       ELSE Raise("route",
                  ValueError(<<"Invalid API path: ">> \o StrOf(event["apiPath"])),
                  "Raised")
    /\ UNCHANGED <<event, sales_id, body, result, openCalls, queryCalls, dbResponse>>

\* Routed -> ParameterExtracted: the parameter loop and the check of sales_id
ExtractParameter ==
    /\ pc = "Routed"
    /\ LET parameters == IF "parameters" \in DOMAIN event
                         THEN event["parameters"].v ELSE <<>>
           id == find_sales_id(parameters)
       IN  /\ sales_id' = id
           /\ IF ~Truthy(id)
              THEN Raise("extract",
                         ValueError(<<"SalesOrderID parameter is missing or invalid">>),
                         "Raised")
              ELSE pc' = "ParameterExtracted" /\ UNCHANGED <<exc, fault>>
    /\ UNCHANGED <<event, body, result, openCalls, queryCalls, dbResponse>>

\* the call of query_logistic_db(sales_id): its input validation
CheckSalesId ==
    /\ pc = "ParameterExtracted"
    /\ LET e == check_sales_id(sales_id)
       IN  IF e = PyNone
           THEN pc' = "Opening" /\ UNCHANGED <<exc, fault>>
           ELSE Raise("check", e, "QueryRaised")
    /\ UNCHANGED <<event, sales_id, body, result, openCalls, queryCalls, dbResponse>>

\* setup_dynamodb_table("logistics"): table_status succeeds or raises, and what
\* it raises is turned into a LogisticsQueryError
SetupTable ==
    /\ pc = "Opening"
    /\ openCalls' = openCalls + 1
    /\ \E outcome \in OpenFaults \cup {PyNone} :
          IF outcome = PyNone
          THEN pc' = "Querying" /\ UNCHANGED <<exc, fault>>
          ELSE /\ exc' = setup_dynamodb_table_except(outcome)
               /\ fault' = [t |-> "fault", at |-> "open", e |-> outcome]
               /\ pc' = "QueryRaised"
    /\ UNCHANGED <<event, sales_id, body, result, queryCalls, dbResponse>>

\* orders_table.query(...): raises, or returns a response that is validated
\* and returned to lambda_handler
QueryTable ==
    /\ pc = "Querying"
    /\ queryCalls' = queryCalls + 1
    /\ \E outcome \in QueryFaults \cup QueryResponses :
          IF outcome.t = "exception"
          THEN /\ Raise("query", outcome, "QueryRaised")
               /\ UNCHANGED <<dbResponse, body>>
          ELSE /\ dbResponse' = outcome
               /\ LET e == check_response(outcome)
                  IN  IF e = PyNone
                      THEN /\ body' = query_return(outcome)
                           /\ pc' = "Queried"
                           /\ UNCHANGED <<exc, fault>>
                      ELSE /\ Raise("format", e, "QueryRaised")
                           /\ UNCHANGED body
    /\ UNCHANGED <<event, sales_id, result, openCalls>>

\* QueryExcept, were a failed table call tried once more
QueryExcept_retry ==
    /\ pc = "QueryRaised"
    /\ IF openCalls < 2 /\ fault.at \in {"open", "query"}
       THEN pc' = "Opening" /\ exc' = PyNone
       ELSE pc' = "Raised" /\ exc' = query_logistic_db_except(exc)
    /\ UNCHANGED <<event, sales_id, body, result, openCalls, queryCalls,
                   dbResponse, fault>>

\* the except clauses of query_logistic_db
QueryExcept ==
    /\ pc = "QueryRaised"
    /\ exc' = query_logistic_db_except(exc)
    /\ pc' = "Raised"
    /\ UNCHANGED <<event, sales_id, body, result, openCalls, queryCalls,
                   dbResponse, fault>>

\* Queried -> Responded: json.dumps(body) and the success envelope
BuildSuccess ==
    /\ pc = "Queried"
    /\ IF Serializable(body)
       THEN /\ result' = success_response(event, body)
            /\ pc' = "Responded"
            /\ UNCHANGED <<exc, fault>>
       ELSE /\ Raise("dumps",
                     Exc("TypeError",
                         <<"Object of type Decimal is not JSON serializable">>),
                     "Raised")
            /\ UNCHANGED result
    /\ UNCHANGED <<event, sales_id, body, openCalls, queryCalls, dbResponse>>

\* the except clauses of lambda_handler: Failed with the error envelope, or
\* Escaped when no clause catches the exception
HandlerExcept ==
    /\ pc = "Raised"
    /\ LET r == lambda_handler_except(exc)
       IN  /\ result' = r
           /\ pc' = IF r = PyNone THEN "Escaped" ELSE "Failed"
    /\ UNCHANGED <<event, sales_id, body, exc, openCalls, queryCalls,
                   dbResponse, fault>>

Next ==
    \/ ValidateEvent
    \/ Route
    \/ ExtractParameter
    \/ CheckSalesId
    \/ SetupTable
    \/ QueryTable
    \/ QueryExcept
    \/ BuildSuccess
    \/ HandlerExcept

Spec == Init /\ [][Next]_vars

----------------------------------------------------------------------------
\* Vocabulary of the properties

\* lambda_handler has returned an envelope
Returned == pc \in {"Responded", "Failed"}

\* the invocation is over: an envelope was returned or an exception escaped
Done == Returned \/ pc = "Escaped"

Status == result.response.httpStatusCode

BodyText == result.response.responseBody["application/json"].body

\* sub occurs in text as a contiguous run of atoms
Contains(text, sub) ==
    \E i \in 0..(Len(text) - Len(sub)) : SubSeq(text, i + 1, i + Len(sub)) = sub

\* the JSON text of the object {"error": message}
ErrorBody(message) ==
    <<"{", Quote, "error", Quote, ": ", Quote>> \o EscapeText(message) \o <<Quote, "}">>

HasRequiredFields == {"apiPath", "actionGroup", "httpMethod"} \subseteq DOMAIN event

\* the first of apiPath, actionGroup, httpMethod that the event lacks
FirstMissingField ==
    IF "apiPath" \notin DOMAIN event THEN "apiPath"
    ELSE IF "actionGroup" \notin DOMAIN event THEN "actionGroup"
    ELSE "httpMethod"

\* the event's parameters list, empty when the event has none
EventParameters ==
    IF "parameters" \in DOMAIN event THEN event["parameters"].v ELSE <<>>

\* positions of the entries named exactly SalesOrderID
NamedSalesOrderID ==
    {i \in 1..Len(EventParameters) :
        /\ "name" \in DOMAIN EventParameters[i]
        /\ EventParameters[i]["name"] = PyStr(<<"SalesOrderID">>)}

\* the entry at position i carries no value, or an empty one
EmptyValueAt(i) ==
    \/ "value" \notin DOMAIN EventParameters[i]
    \/ EventParameters[i]["value"] = PyStr(<<>>)

FirstNamed == CHOOSE i \in NamedSalesOrderID : \A j \in NamedSalesOrderID : i <= j

\* all required fields, the supported path, and a non-empty string SalesOrderID
ValidEvent ==
    /\ HasRequiredFields
    /\ event["apiPath"] = PyStr(SupportedPath)
    /\ NamedSalesOrderID # {}
    /\ ~EmptyValueAt(FirstNamed)
    /\ EventParameters[FirstNamed]["value"].t = "str"

\* the storage layer raised a ClientError while opening or querying the table
CollaboratorFailure ==
    /\ fault # PyNone
    /\ fault.at \in {"open", "query"}
    /\ fault.e.cls = "ClientError"

\* the first failure is neither a validation error of the event nor a
\* ClientError of the storage layer
UnexpectedFailure ==
    /\ fault # PyNone
    /\ \/ fault.at = "dumps"
       \/ fault.at \in {"open", "query"} /\ fault.e.cls # "ClientError"

----------------------------------------------------------------------------
\* Properties

\* C1: whatever the event and whatever the table does, no exception escapes
\* lambda_handler: the invocation goes on until it returns, and what it
\* returns is an envelope of messageVersion "1.0" whose httpStatusCode is 200,
\* 400 or 500.
NoUncaughtFailure ==
    /\ pc # "Escaped"
    /\ ~Returned => ENABLED Next
    /\ Returned =>
          /\ DOMAIN result = {"messageVersion", "response"}
          /\ result.messageVersion = "1.0"
          /\ Status \in {200, 400, 500}
          /\ DOMAIN result.response.responseBody = {"application/json"}

\* C1 witness: a TypeError of json.dumps, which no specific clause names, was
\* caught and answered.
UnexpectedFailureAnswered ==
    /\ pc = "Failed"
    /\ fault.at = "dumps"
    /\ Status = 500

\* C2: a valid event whose table open or query raises a ClientError is
\* answered with status 500 and a body that does not contain the storage
\* layer's error message.
CollaboratorFailureNotLeaked ==
    (Done /\ ValidEvent /\ CollaboratorFailure) =>
        /\ pc = "Failed"
        /\ Status = 500
        /\ ~Contains(BodyText, fault.e.message)
        /\ ~Contains(BodyText, EscapeText(fault.e.message))

\* C3: a failure that is neither a validation error nor a ClientError of the
\* table, at whichever step, is answered with status 500 and the body
\* {"error": "Internal server error"}.
UnexpectedFailureIsGeneric ==
    (Done /\ UnexpectedFailure) =>
        /\ pc = "Failed"
        /\ Status = 500
        /\ BodyText = ErrorBody(<<"Internal server error">>)

\* C4: an event lacking one of apiPath, actionGroup, httpMethod is answered
\* with status 400 and a body naming the first missing field, in that order,
\* and no other missing field.
MissingFieldReported ==
    (Done /\ ~HasRequiredFields) =>
        /\ pc = "Failed"
        /\ Status = 400
        /\ BodyText = ErrorBody(<<"Missing required field: ", FirstMissingField>>)
        /\ \A f \in {"apiPath", "actionGroup", "httpMethod"} \ {FirstMissingField} :
              ~Contains(BodyText, <<f>>)

\* C4 witness: an event that has apiPath but neither actionGroup nor
\* httpMethod was answered.
TwoFieldsMissingAnswered ==
    /\ pc = "Failed"
    /\ "apiPath" \in DOMAIN event
    /\ "actionGroup" \notin DOMAIN event
    /\ "httpMethod" \notin DOMAIN event
    /\ "parameters" \in DOMAIN event

\* C5: with all required fields and the supported path, if no parameter is
\* named exactly SalesOrderID, or the first one so named has an empty or absent
\* value, the answer has status 400.
MissingParameterRejected ==
    (Done /\ HasRequiredFields /\ event["apiPath"] = PyStr(SupportedPath)
          /\ (NamedSalesOrderID = {} \/ EmptyValueAt(FirstNamed))) =>
        /\ pc = "Failed"
        /\ Status = 400

\* C5 witness: the first SalesOrderID entry has an empty value and a later one
\* a non-empty value, and the event was answered.
FirstMatchEmptyAnswered ==
    /\ pc = "Failed"
    /\ HasRequiredFields
    /\ event["apiPath"] = PyStr(SupportedPath)
    /\ Cardinality(NamedSalesOrderID) >= 2
    /\ EmptyValueAt(FirstNamed)
    /\ \E i \in NamedSalesOrderID : ~EmptyValueAt(i)

\* C6: with all required fields and an apiPath other than exactly
\* /salesorder/{SalesOrderID}, the answer has status 400, and it is decided
\* before the parameters are looked at and without any table call.
UnsupportedPathRejected ==
    (Done /\ HasRequiredFields /\ event["apiPath"] # PyStr(SupportedPath)) =>
        /\ pc = "Failed"
        /\ Status = 400
        /\ sales_id = PyNone
        /\ fault.at = "route"
        /\ openCalls = 0 /\ queryCalls = 0

\* C6 witness: a path differing from the supported one only in case, with a
\* usable SalesOrderID parameter, was answered.
NearMissPathAnswered ==
    /\ pc = "Failed"
    /\ HasRequiredFields
    /\ event["apiPath"] = PyStr(<<"/salesorder/{salesorderid}">>)
    /\ NamedSalesOrderID # {}
    /\ ~EmptyValueAt(FirstNamed)

\* C7: a valid event whose query returns zero items is answered with status
\* 200 and a body holding an empty Items collection.
EmptyResultIsSuccess ==
    (Done /\ ValidEvent /\ dbResponse # PyNone /\ HasKey(dbResponse, <<"Items">>)
          /\ Lookup(dbResponse, <<"Items">>) = PyList(<<>>)) =>
        /\ pc = "Responded"
        /\ Status = 200
        /\ Contains(BodyText, <<Quote, "Items", Quote, ": ", "[", "]">>)

\* C7 witness: the query returned zero items and the event was answered.
EmptyResultAnswered ==
    /\ Returned
    /\ dbResponse # PyNone
    /\ HasKey(dbResponse, <<"Items">>)
    /\ Lookup(dbResponse, <<"Items">>) = PyList(<<>>)

\* C8: status 200 is returned only when validation, routing, parameter
\* extraction and the query all succeeded; the envelope then echoes the
\* event's actionGroup, apiPath and httpMethod and its body is the
\* serialization of exactly what the table's query returned.
SuccessPassesResultThrough ==
    (Returned /\ Status = 200) =>
        /\ ValidEvent
        /\ fault = PyNone
        /\ openCalls = 1 /\ queryCalls = 1
        /\ dbResponse # PyNone
        /\ result.response.actionGroup = event["actionGroup"]
        /\ result.response.apiPath = event["apiPath"]
        /\ result.response.httpMethod = event["httpMethod"]
        /\ BodyText = Dumps(dbResponse)
        /\ Contains(BodyText, <<"{", Quote, "Items", Quote, ": ", "[">>)

\* C8 witness: a query result with one record was returned with status 200.
RecordReturned ==
    /\ Returned
    /\ Status = 200
    /\ Len(Lookup(dbResponse, <<"Items">>).v) = 1

\* C9: an answer of status 400 or 500 has actionGroup, apiPath and httpMethod
\* all "unknown" and a body that is the serialization of the single-key object
\* {"error": message}.
ErrorEnvelopeShape ==
    (Returned /\ Status \in {400, 500}) =>
        /\ result.response.actionGroup = PyStr(<<"unknown">>)
        /\ result.response.apiPath = PyStr(<<"unknown">>)
        /\ result.response.httpMethod = PyStr(<<"unknown">>)
        /\ \/ BodyText = ErrorBody(exc.v)
           \/ BodyText = ErrorBody(<<"Internal server error">>)

\* C9 witness: an event that supplied all three fields was answered with an
\* error status.
ErrorAfterValidFields ==
    /\ Returned
    /\ Status = 500
    /\ HasRequiredFields

\* C10: in one invocation the table is opened at most once and queried at
\* most once; no table call is made when validation, routing or the extraction
\* of SalesOrderID fails, and none follows a failed open or a failed query.
NoRetry ==
    /\ openCalls <= 1
    /\ queryCalls <= openCalls
    /\ (fault # PyNone /\ fault.at \in {"validate", "route", "extract", "check"}) =>
          (openCalls = 0 /\ queryCalls = 0)
    /\ (fault # PyNone /\ fault.at = "open") => queryCalls = 0
    /\ (fault # PyNone /\ fault.at \in {"query", "format"}) =>
          (openCalls = 1 /\ queryCalls = 1)

\* C10 witness: the open failed and the error was returned.
OpenFailureAnswered ==
    /\ pc = "Failed"
    /\ fault.at = "open"
    /\ openCalls = 1

====
